---- MODULE Spec2Model ----
(***************************************************************************)
(* A model of src/script.js (WANDERLIGHT main script): the mobile menu,    *)
(* the contact form with its simulated submission, the debounced scroll    *)
(* handlers and the parallax listener, the reveal observer, the statistics *)
(* counter, validateField as a function of one value, and init() on a page *)
(* that lacks one element.  Every handler is one action; the               *)
(* handlers of one dispatched event run in registration order inside one   *)
(* action, as the browser's single-threaded event loop runs them.          *)
(***************************************************************************)
EXTENDS Integers, Sequences, FiniteSets, TLC

VARIABLES
    \* ---- mobile menu (initMobileNav, initKeyboardNav) ----
    navMenuOpen,      \* elements.navMenu.classList.contains('open')
    ariaExpanded,     \* elements.navToggle's aria-expanded: "absent", "true", "false"
    bodyMenuOpen,     \* document.body.classList.contains('menu-open')
    linkFocus,        \* index of the focused .nav__link, 0 when focus is elsewhere
    menuHandled,      \* history: toggleMobileMenu or closeMobileMenu has run
    menuEvent,        \* history: the last dispatched menu event
    menuRepeat,       \* history: the last two dispatched menu events were the same
    \* ---- contact form (initContactForm) ----
    fieldValue,       \* field.value of every .form__input / .form__textarea
    fieldError,       \* field.classList.contains('error')
    errorText,        \* textContent of the field's .form__error element
    errorVisible,     \* the field's .form__error element has class 'visible'
    formFocus,        \* the focused field's name, "none" when focus is elsewhere
    btnLoading,       \* submitBtn.classList.contains('loading')
    btnDisabled,      \* submitBtn.disabled
    successVisible,   \* successMessage.classList.contains('visible')
    successPresent,   \* the form holds a .form__success element
    timers,           \* pending setTimeout timers of the form, in creation order
    alerted,          \* history: the catch branch has raised its alert
    sinceSuccess,     \* history: ms since the last successful completion, -1 before any
    formEvent,        \* history: the outcome of the submit listener if the last step was its, else "other"
    \* ---- scroll handlers (debounce, handleHeaderScroll, initActiveNavLink, initBackToTop) ----
    scrollY,          \* window.scrollY / window.pageYOffset
    headerScrolled,   \* elements.header.classList.contains('scrolled')
    activeLinks,      \* the .nav__link elements with class 'active'
    backToTopVisible, \* elements.backToTop.classList.contains('visible')
    debounceTimers,   \* per debounced wrapper, its pending setTimeout timers
    sinceCall,        \* history: ms since the last call of the wrappers, -1 before any
    burst,            \* history: calls of the current burst (2 for two or more)
    invoked,          \* history: per wrapper, the arguments of its invocations since the last call
    scrollEvent,      \* history: the last scroll event, timer callback or parallax frame
    ticking,          \* initParallax's flag `ticking`
    frameRequests,    \* the pending requestAnimationFrame callbacks of the parallax listener
    particlesTransform, \* heroParticles.style.transform: the translateY length in tenths of a px
    \* ---- reveal on scroll (initScrollReveal) ----
    revealClass,      \* the reveal elements with class 'reveal'
    revealVisible,    \* the reveal elements with class 'visible'
    revealObserved,   \* the targets the IntersectionObserver observes
    revealActs,       \* history: per element, how often the callback has revealed it (2: more than once)
    lastEntries,      \* history: the entries of the last callback, target -> isIntersecting
    \* ---- statistics counter (initStatsCounter, animateCount) ----
    statObserved,     \* the .stat__number targets the IntersectionObserver observes
    statLoops,        \* per element, its pending updateCount frame requests: ms since each one's startTime
    statText,         \* per element, its textContent
    statStarts,       \* history: per element, the calls of animateCount (2: more than one)
    statDone,         \* history: the elements whose animation has run its final frame
    lastFrame,        \* history: the ms the last animation frame came after the one before, 0 if the last step was no frame
    \* ---- start-up on a page that lacks an element (init) ----
    absent,           \* the element the page lacks, "none" when it has them all
    initPc,           \* the statement of init() to run next, Len(InitSteps) + 1 once init() is left
    initialized,      \* the statements of init() that have set their component up
    worked,           \* history: the components that have handled an event to its end
    uncaught,         \* history: an error has been thrown and not caught
    caught,           \* history: the submit listener's catch block has run
    pageEvent,        \* history: the last event dispatched after init()
    \* ---- validateField on one field of the form, taken alone ----
    probe,            \* the field's name and its value
    verdict           \* what validateField returned for it, "none" before the call

menuVars == <<navMenuOpen, ariaExpanded, bodyMenuOpen, linkFocus, menuHandled, menuEvent,
              menuRepeat>>

formVars == <<fieldValue, fieldError, errorText, errorVisible, formFocus, btnLoading,
              btnDisabled, successVisible, successPresent, timers, alerted,
              sinceSuccess, formEvent>>

scrollVars == <<scrollY, headerScrolled, activeLinks, backToTopVisible, debounceTimers,
                sinceCall, burst, invoked, scrollEvent, ticking, frameRequests,
                particlesTransform>>

revealVars == <<revealClass, revealVisible, revealObserved, revealActs, lastEntries>>

statsVars == <<statObserved, statLoops, statText, statStarts, statDone, lastFrame>>

initVars == <<absent, initPc, initialized, worked, uncaught, caught, pageEvent>>

probeVars == <<probe, verdict>>

vars == <<menuVars, formVars, scrollVars, revealVars, statsVars, initVars, probeVars>>

\* What the handlers of one component leave alone.
OutsideMenu == <<formVars, scrollVars, revealVars, statsVars, initVars, probeVars>>
OutsideForm == <<menuVars, scrollVars, revealVars, statsVars, initVars, probeVars>>
OutsideScroll == <<menuVars, formVars, revealVars, statsVars, initVars, probeVars>>
OutsideReveal == <<menuVars, formVars, scrollVars, statsVars, initVars, probeVars>>
OutsideStats == <<menuVars, formVars, scrollVars, revealVars, initVars, probeVars>>
OutsideInit == <<menuVars, formVars, scrollVars, revealVars, statsVars, probeVars>>
OutsideProbe == <<menuVars, formVars, scrollVars, revealVars, statsVars, initVars>>

----------------------------------------------------------------------------
\* Mobile navigation

\* number of .nav__link elements of the page
NumNavLinks == 3

NavLinkIds == 1..NumNavLinks

\* The menu state the handlers read and write, as one value.
MenuState == [open |-> navMenuOpen, aria |-> ariaExpanded, body |-> bodyMenuOpen,
              handled |-> menuHandled]

\* A boolean written through setAttribute becomes its string form.
BoolAttr(b) == IF b THEN "true" ELSE "false"

toggleMobileMenu(m) ==
    LET isOpen == ~m.open        \* classList.toggle('open') returns the new presence
    IN  [open |-> isOpen, aria |-> BoolAttr(isOpen), body |-> isOpen, handled |-> TRUE]

closeMobileMenuKeepAria(m) ==
    [open |-> FALSE, aria |-> m.aria, body |-> FALSE, handled |-> TRUE]

closeMobileMenu(m) ==
    [open |-> FALSE, aria |-> "false", body |-> FALSE, handled |-> TRUE]

\* Click targets, by where they sit in the document: inside the toggle control,
\* a navigation link inside the menu, elsewhere inside the menu, a navigation
\* link outside the menu, and anywhere else.
ClickTargets ==
    { [kind |-> "toggle",      inToggle |-> TRUE,  inMenu |-> FALSE, isLink |-> FALSE],
      [kind |-> "menuLink",    inToggle |-> FALSE, inMenu |-> TRUE,  isLink |-> TRUE],
      [kind |-> "menuOther",   inToggle |-> FALSE, inMenu |-> TRUE,  isLink |-> FALSE],
      [kind |-> "outsideLink", inToggle |-> FALSE, inMenu |-> FALSE, isLink |-> TRUE],
      [kind |-> "outside",     inToggle |-> FALSE, inMenu |-> FALSE, isLink |-> FALSE] }

\* The listener on elements.navToggle.
ToggleClickListener(m, t) == IF t.inToggle THEN toggleMobileMenu(m) ELSE m

\* The listener on every .nav__link.
LinkClickListener(m, t) == IF t.isLink THEN closeMobileMenu(m) ELSE m

DocumentClickListenerAnyTarget(m, t) ==
    IF m.open THEN closeMobileMenu(m) ELSE m

\* The listener on document: close when open and the target is outside both.
DocumentClickListener(m, t) ==
    IF m.open /\ ~t.inMenu /\ ~t.inToggle THEN closeMobileMenu(m) ELSE m

DocumentKeydownListenerToggling(m, key) ==
    IF key = "Escape" THEN toggleMobileMenu(m) ELSE m

\* The keydown listener on document.
DocumentKeydownListener(m, key) ==
    IF key = "Escape" /\ m.open THEN closeMobileMenu(m) ELSE m

\* The keydown listener on the .nav__link with the given index (1-based here).
LinkKeydownListener(index, key) ==
    IF key \in {"ArrowRight", "ArrowDown"}
        THEN (index % NumNavLinks) + 1
    ELSE IF key \in {"ArrowLeft", "ArrowUp"}
        THEN ((index - 2 + NumNavLinks) % NumNavLinks) + 1
    ELSE index

Keys == {"Escape", "ArrowRight", "ArrowDown", "ArrowLeft", "ArrowUp", "Enter"}

SetMenu(m) ==
    /\ navMenuOpen' = m.open
    /\ ariaExpanded' = m.aria
    /\ bodyMenuOpen' = m.body
    /\ menuHandled' = m.handled

\* One click, fully dispatched: the target's listeners, then the document's.
ClickEvent ==
    \E t \in ClickTargets :
        /\ SetMenu(DocumentClickListener(
                     LinkClickListener(ToggleClickListener(MenuState, t), t), t))
        /\ menuEvent' = t.kind
        /\ menuRepeat' = (menuEvent = t.kind)
        /\ UNCHANGED <<linkFocus, OutsideMenu>>

\* One keydown, fully dispatched: the focused link's listener, then the document's.
KeydownEvent ==
    \E key \in Keys :
        /\ SetMenu(DocumentKeydownListener(MenuState, key))
        /\ linkFocus' = IF linkFocus \in NavLinkIds
                           THEN LinkKeydownListener(linkFocus, key)
                           ELSE linkFocus
        /\ menuEvent' = key
        /\ menuRepeat' = (menuEvent = key)
        /\ UNCHANGED OutsideMenu

\* The user moves focus (Tab, pointer) to a navigation link or away from them.
FocusChange ==
    \E i \in 0..NumNavLinks :
        /\ i # linkFocus
        /\ linkFocus' = i
        /\ menuEvent' = "focus"
        /\ menuRepeat' = (menuEvent = "focus")
        /\ UNCHANGED <<navMenuOpen, ariaExpanded, bodyMenuOpen, menuHandled, OutsideMenu>>

\* The markup decides the state the handlers start from.
MenuStart ==
    /\ navMenuOpen \in BOOLEAN
    /\ ariaExpanded \in {"absent", "true", "false"}
    /\ bodyMenuOpen \in BOOLEAN
    /\ linkFocus = 0
    /\ menuHandled = FALSE
    /\ menuEvent = "none"
    /\ menuRepeat = FALSE

MenuNext == ClickEvent \/ KeydownEvent \/ FocusChange

----------------------------------------------------------------------------
\* Strings are sequences of UTF-16 code units, as String.prototype.trim and
\* RegExp.prototype.test see them.

\* WhiteSpace and LineTerminator code units: what trim() strips and \s matches.
WhiteSpaceChars ==
    {9, 10, 11, 12, 13, 32, 160, 5760, 8232, 8233, 8239, 8287, 12288, 65279}
        \cup (8192..8202)

\* The line terminators, which "." does not match.
LineTerminators == {10, 13, 8232, 8233}

LowerCase == 97..122
UpperCase == 65..90
Digits == 48..57
\* The class range from U+00C0 to U+00FF of the name pattern.
LatinRange == 192..255

RECURSIVE TrimStart(_)
TrimStart(str) ==
    IF str # <<>> /\ Head(str) \in WhiteSpaceChars THEN TrimStart(Tail(str)) ELSE str

RECURSIVE TrimEnd(_)
TrimEnd(str) ==
    IF str # <<>> /\ str[Len(str)] \in WhiteSpaceChars
        THEN TrimEnd(SubSeq(str, 1, Len(str) - 1))
        ELSE str

\* String.prototype.trim
Trim(str) == TrimEnd(TrimStart(str))

AllIn(str, from, to, class) == \A k \in from..to : str[k] \in class

\* patterns.name = /^[a-zA-Z\u00C0-\u00FF\s]{2,50}$/
NamePattern(str) ==
    /\ Len(str) >= 2
    /\ Len(str) <= 50
    /\ AllIn(str, 1, Len(str), LowerCase \cup UpperCase \cup LatinRange \cup WhiteSpaceChars)

EmailLocalChars == LowerCase \cup UpperCase \cup Digits \cup {46, 95, 37, 43, 45}
EmailDomainChars == LowerCase \cup UpperCase \cup Digits \cup {46, 45}

\* patterns.email = /^[a-zA-Z0-9._%+-]+@[a-zA-Z0-9.-]+\.[a-zA-Z]{2,}$/ :
\* some "@" at i and some "." at j split the string into the three parts.
EmailPattern(str) ==
    \E i \in 2..Len(str) : \E j \in (i + 2)..(Len(str) - 2) :
        /\ str[i] = 64
        /\ str[j] = 46
        /\ AllIn(str, 1, i - 1, EmailLocalChars)
        /\ AllIn(str, i + 1, j - 1, EmailDomainChars)
        /\ AllIn(str, j + 1, Len(str), LowerCase \cup UpperCase)

\* patterns.message = /^.{10,1000}$/
MessagePattern(str) ==
    /\ Len(str) >= 10
    /\ Len(str) <= 1000
    /\ \A k \in 1..Len(str) : str[k] \notin LineTerminators

PatternNames == {"name", "email", "message"}

PatternTest(fieldName, str) ==
    CASE fieldName = "name" -> NamePattern(str)
      [] fieldName = "email" -> EmailPattern(str)
      [] fieldName = "message" -> MessagePattern(str)

errorMessages(fieldName) ==
    CASE fieldName = "name" -> "Inserisci un nome valido (almeno 2 caratteri)"
      [] fieldName = "email" -> "Inserisci un indirizzo email valido"
      [] fieldName = "message" -> "Il messaggio deve contenere almeno 10 caratteri"
      [] OTHER -> "Campo non valido"

----------------------------------------------------------------------------
\* Contact form

\* The form's fields in document order, with the markup's required attribute.
FormFields ==
    << [name |-> "name",    required |-> TRUE],
       [name |-> "email",   required |-> TRUE],
       [name |-> "subject", required |-> FALSE],
       [name |-> "message", required |-> TRUE] >>

FieldNames == { FormFields[i].name : i \in 1..Len(FormFields) }

FieldRequired(fieldName) ==
    \E i \in 1..Len(FormFields) :
        FormFields[i].name = fieldName /\ FormFields[i].required

\* isValid as validateField computes it from the field's name and value.
IsValid(fieldName, raw) ==
    LET value == Trim(raw)
    IN  IF fieldName = "subject" THEN TRUE
        ELSE IF fieldName \in PatternNames THEN PatternTest(fieldName, value)
        ELSE IF FieldRequired(fieldName) /\ value = <<>> THEN FALSE
        ELSE TRUE

\* The error display of the form: what validateField writes.
FormUi == [error |-> fieldError, text |-> errorText, visible |-> errorVisible]

\* validateField: the display after the call, and the value returned.
validateField(ui, fieldName, raw) ==
    IF fieldName = "subject" THEN [ui |-> ui, ok |-> TRUE]
    ELSE LET isValid == IsValid(fieldName, raw)
         IN  IF ~isValid
             THEN [ui |-> [error |-> [ui.error EXCEPT ![fieldName] = TRUE],
                           text |-> [ui.text EXCEPT ![fieldName] = errorMessages(fieldName)],
                           visible |-> [ui.visible EXCEPT ![fieldName] = TRUE]],
                   ok |-> FALSE]
             ELSE [ui |-> [error |-> [ui.error EXCEPT ![fieldName] = FALSE],
                           text |-> [ui.text EXCEPT ![fieldName] = ""],
                           visible |-> [ui.visible EXCEPT ![fieldName] = FALSE]],
                   ok |-> TRUE]

RECURSIVE validateFormShortCircuit(_, _, _)
validateFormShortCircuit(ui, values, i) ==
    IF i > Len(FormFields) THEN [ui |-> ui, ok |-> TRUE]
    ELSE LET one == validateField(ui, FormFields[i].name, values[FormFields[i].name])
         IN  IF ~one.ok THEN [ui |-> one.ui, ok |-> FALSE]
             ELSE validateFormShortCircuit(one.ui, values, i + 1)

RECURSIVE validateFormFrom(_, _, _)
\* The forEach of validateForm from the i-th field on.
validateFormFrom(ui, values, i) ==
    IF i > Len(FormFields) THEN [ui |-> ui, ok |-> TRUE]
    ELSE LET one == validateField(ui, FormFields[i].name, values[FormFields[i].name])
             rest == validateFormFrom(one.ui, values, i + 1)
         IN  [ui |-> rest.ui, ok |-> one.ok /\ rest.ok]

validateFormStopAtFirst(ui, values) == validateFormShortCircuit(ui, values, 1)

validateForm(ui, values) == validateFormFrom(ui, values, 1)

LastError(error) ==
    IF \E i \in 1..Len(FormFields) : error[FormFields[i].name]
    THEN FormFields[CHOOSE i \in 1..Len(FormFields) :
                       /\ error[FormFields[i].name]
                       /\ \A k \in (i + 1)..Len(FormFields) : ~error[FormFields[k].name]].name
    ELSE "none"

\* form.querySelector('.error'): the first field in document order with the class.
FirstError(error) ==
    IF \E i \in 1..Len(FormFields) : error[FormFields[i].name]
    THEN FormFields[CHOOSE i \in 1..Len(FormFields) :
                       /\ error[FormFields[i].name]
                       /\ \A k \in 1..(i - 1) : ~error[FormFields[k].name]].name
    ELSE "none"

SetUi(ui) ==
    /\ fieldError' = ui.error
    /\ errorText' = ui.text
    /\ errorVisible' = ui.visible

\* The blur listener of the field that loses focus when focus moves to `to`.
BlurOf(ui, to) ==
    IF formFocus # "none" /\ formFocus # to
        THEN validateField(ui, formFocus, fieldValue[formFocus]).ui
        ELSE ui

\* setTimeout delays of the submit handler
SubmitDelay == 1500
HideDelay == 5000

\* the most timers of the form pending at once
MaxTimers == 2

Min(a, b) == IF a < b THEN a ELSE b

Str(n, c) == [k \in 1..n |-> c]

\* The values the user types, per field: "" for each; "Al"; "a@b.co" and
\* "not-an-email"; "Hi"; fifteen times "x".
FieldValues(fieldName) ==
    CASE fieldName = "name" -> { <<>>, <<65, 108>> }
      [] fieldName = "email" -> { <<>>, <<97, 64, 98, 46, 99, 111>>,
                                  <<110, 111, 116, 45, 97, 110, 45,
                                    101, 109, 97, 105, 108>> }
      [] fieldName = "subject" -> { <<>>, <<72, 105>> }
      [] fieldName = "message" -> { <<>>, Str(15, 120) }

\* The markup's default values, which form.reset() restores.
DefaultValues == [f \in FieldNames |-> <<>>]

InputListenerValidating(ui, fieldName, raw) == validateField(ui, fieldName, raw).ui

\* The input listener: revalidate only a field that carries the error class.
InputListener(ui, fieldName, raw) ==
    IF ui.error[fieldName] THEN validateField(ui, fieldName, raw).ui ELSE ui

\* input on a field: the value changes, then the field's input listener runs.
InputEvent ==
    \E f \in FieldNames : \E v \in FieldValues(f) :
        /\ v # fieldValue[f]
        /\ fieldValue' = [fieldValue EXCEPT ![f] = v]
        /\ SetUi(InputListener(FormUi, f, v))
        /\ formEvent' = "other"
        /\ UNCHANGED <<formFocus, btnLoading, btnDisabled, successVisible,
                       successPresent, timers, alerted, sinceSuccess, OutsideForm>>

\* The focused field loses focus to something outside the fields: its blur listener.
BlurEvent ==
    /\ formFocus # "none"
    /\ SetUi(BlurOf(FormUi, "none"))
    /\ formFocus' = "none"
    /\ formEvent' = "other"
    /\ UNCHANGED <<fieldValue, btnLoading, btnDisabled, successVisible,
                   successPresent, timers, alerted, sinceSuccess, OutsideForm>>

\* The user moves focus to a field: the blur listener of the field left, if any.
FocusEvent ==
    \E f \in FieldNames :
        /\ f # formFocus
        /\ SetUi(BlurOf(FormUi, f))
        /\ formFocus' = f
        /\ formEvent' = "other"
        /\ UNCHANGED <<fieldValue, btnLoading, btnDisabled, successVisible,
                       successPresent, timers, alerted, sinceSuccess, OutsideForm>>

\* The submit listener up to its return or its await.
SubmitEvent ==
    LET checked == validateForm(FormUi, fieldValue)
        firstError == FirstError(checked.ui.error)
    IN  IF ~checked.ok
        THEN \* firstError.focus() runs the blur listener of the field left
             /\ SetUi(IF firstError # "none" THEN BlurOf(checked.ui, firstError)
                                             ELSE checked.ui)
             /\ formFocus' = IF firstError # "none" THEN firstError ELSE formFocus
             /\ formEvent' = "submitInvalid"
             /\ UNCHANGED <<fieldValue, btnLoading, btnDisabled, successVisible,
                            successPresent, timers, alerted, sinceSuccess, OutsideForm>>
        ELSE /\ Len(timers) < MaxTimers
             /\ SetUi(checked.ui)
             /\ btnLoading' = TRUE
             /\ btnDisabled' = TRUE
             /\ timers' = Append(timers, [kind |-> "submit", remaining |-> SubmitDelay])
             /\ formEvent' = "submitValid"
             /\ UNCHANGED <<fieldValue, formFocus, successVisible, successPresent,
                            alerted, sinceSuccess, OutsideForm>>

\* The timer the event loop runs next: the oldest of those that are due.
DueTimer ==
    IF \E i \in 1..Len(timers) : timers[i].remaining = 0
    THEN CHOOSE i \in 1..Len(timers) :
             /\ timers[i].remaining = 0
             /\ \A k \in 1..(i - 1) : timers[k].remaining # 0
    ELSE 0

RemoveAt(seq, i) == SubSeq(seq, 1, i - 1) \o SubSeq(seq, i + 1, Len(seq))

FinallyOnSuccessOnly(succeeded) ==
    IF succeeded THEN [loading |-> FALSE, disabled |-> FALSE]
                 ELSE [loading |-> btnLoading, disabled |-> btnDisabled]

\* The finally block of the submit listener: the submit control afterwards.
Finally(succeeded) == [loading |-> FALSE, disabled |-> FALSE]

\* The 1500 ms timer fires and the submit listener resumes after its await:
\* the try block, or the catch block when successMessage is null, then finally.
SubmissionCompletes ==
    /\ DueTimer # 0
    /\ timers[DueTimer].kind = "submit"
    /\ IF successPresent
       THEN /\ successVisible' = TRUE
            /\ fieldValue' = DefaultValues
            /\ timers' = Append(RemoveAt(timers, DueTimer),
                                [kind |-> "hide", remaining |-> HideDelay])
            /\ sinceSuccess' = 0
            /\ formEvent' = "completed"
            /\ UNCHANGED alerted
       ELSE /\ alerted' = TRUE
            /\ timers' = RemoveAt(timers, DueTimer)
            /\ formEvent' = "failed"
            /\ UNCHANGED <<successVisible, fieldValue, sinceSuccess>>
    /\ btnLoading' = Finally(successPresent).loading
    /\ btnDisabled' = Finally(successPresent).disabled
    /\ UNCHANGED <<fieldError, errorText, errorVisible, formFocus, successPresent,
                   OutsideForm>>

\* The 5000 ms timer fires: the success message is hidden.
HideSuccess ==
    /\ DueTimer # 0
    /\ timers[DueTimer].kind = "hide"
    /\ successVisible' = FALSE
    /\ timers' = RemoveAt(timers, DueTimer)
    /\ formEvent' = "other"
    /\ UNCHANGED <<fieldValue, fieldError, errorText, errorVisible, formFocus,
                   btnLoading, btnDisabled, successPresent, alerted, sinceSuccess,
                   OutsideForm>>

\* The time to the nearest deadline among the pending timers.
RECURSIVE NextDeadline(_)
NextDeadline(pending) ==
    IF Len(pending) = 1 THEN pending[1].remaining
    ELSE Min(pending[1].remaining, NextDeadline(Tail(pending)))

\* Time passes up to the deadline of the next pending timer.
FormTick ==
    /\ timers # <<>>
    /\ DueTimer = 0
    /\ timers' = [i \in 1..Len(timers) |->
                     [timers[i] EXCEPT !.remaining = @ - NextDeadline(timers)]]
    /\ sinceSuccess' = IF sinceSuccess < 0 THEN sinceSuccess
                       ELSE Min(sinceSuccess + NextDeadline(timers), HideDelay)
    /\ formEvent' = "other"
    /\ UNCHANGED <<fieldValue, fieldError, errorText, errorVisible, formFocus,
                   btnLoading, btnDisabled, successVisible, successPresent, alerted,
                   OutsideForm>>

\* The form as the markup gives it, after initContactForm.
FormStart ==
    /\ fieldValue = DefaultValues
    /\ fieldError = [f \in FieldNames |-> FALSE]
    /\ errorText = [f \in FieldNames |-> ""]
    /\ errorVisible = [f \in FieldNames |-> FALSE]
    /\ formFocus = "none"
    /\ btnLoading = FALSE
    /\ btnDisabled = FALSE
    /\ successVisible = FALSE
    /\ successPresent \in BOOLEAN
    /\ timers = <<>>
    /\ alerted = FALSE
    /\ sinceSuccess = -1
    /\ formEvent = "none"

FormIdle == FormStart /\ successPresent

MenuIdle ==
    /\ MenuStart
    /\ ~navMenuOpen /\ ariaExpanded = "false" /\ ~bodyMenuOpen

FormNext ==
    \/ InputEvent
    \/ BlurEvent
    \/ FocusEvent
    \/ SubmitEvent
    \/ SubmissionCompletes
    \/ HideSuccess
    \/ FormTick

----------------------------------------------------------------------------
\* Debounced scroll handlers

\* config.scrollThreshold
scrollThreshold == 100

\* the waits given to debounce: handleHeaderScroll; updateActiveLink and toggleBackToTop
HeaderWait == 10
LinkWait == 50

\* elements.header.offsetHeight
HeaderHeight == 60

\* the granularity of time in the scroll model
ScrollStep == 5

\* The scroll offsets the page is scrolled to.
ScrollOffsets == {0, 100, 101, 300, 301, 500, 1000}

\* The section[id] elements in document order: offsetTop, offsetHeight and the
\* .nav__link whose href names the section (0 when there is none).  The third
\* is nested in the second; the fourth has no navigation link.
Sections ==
    << [top |-> 0,    height |-> 400, link |-> 1],
       [top |-> 400,  height |-> 600, link |-> 2],
       [top |-> 600,  height |-> 200, link |-> 3],
       [top |-> 1000, height |-> 200, link |-> 0] >>

\* The debounced wrappers, in the order their scroll listeners are registered.
Wrappers == <<"updateActiveLink", "toggleBackToTop", "handleHeaderScroll">>

WrapperNames == { Wrappers[i] : i \in 1..Len(Wrappers) }

Wait(w) == IF w = "handleHeaderScroll" THEN HeaderWait ELSE LinkWait

\* clearTimeout(timeout): the timer `timeout` names leaves the list, if still pending.
ClearTimeout(pending) == SelectSeq(pending, LAMBDA t : ~t.current)

\* timeout = setTimeout(later, wait): a new timer, which `timeout` now names.
SetTimeout(pending, wait, args) ==
    Append([i \in 1..Len(pending) |-> [pending[i] EXCEPT !.current = FALSE]],
           [remaining |-> wait, args |-> args, current |-> TRUE])

executedFunctionNoClear(pending, wait, args) == SetTimeout(pending, wait, args)

\* The wrapper debounce returns: cancel the pending timer, start a new one.
executedFunction(pending, wait, args) ==
    SetTimeout(ClearTimeout(pending), wait, args)

handleHeaderScrollAtThreshold(y) == y >= scrollThreshold

\* handleHeaderScroll: whether the header carries 'scrolled' afterwards.
handleHeaderScroll(y) == y > scrollThreshold

\* toggleBackToTop: whether the button carries 'visible' afterwards.
toggleBackToTop(y) == y > scrollThreshold * 3

\* The test of updateActiveLink for one section.
InSpan(section, y) ==
    LET sectionTop == section.top - HeaderHeight - 100
    IN  y > sectionTop /\ y <= sectionTop + section.height

RECURSIVE updateActiveLinkFrom(_, _, _)
\* The sections.forEach of updateActiveLink from the i-th section on.
updateActiveLinkFrom(active, y, i) ==
    IF i > Len(Sections) THEN active
    ELSE IF Sections[i].link # 0 /\ InSpan(Sections[i], y)
         THEN updateActiveLinkFrom({Sections[i].link}, y, i + 1)
         ELSE updateActiveLinkFrom(active, y, i + 1)

updateActiveLinkFirstMatch(active, y) ==
    IF \E i \in 1..Len(Sections) : Sections[i].link # 0 /\ InSpan(Sections[i], y)
    THEN {Sections[CHOOSE i \in 1..Len(Sections) :
                      /\ Sections[i].link # 0 /\ InSpan(Sections[i], y)
                      /\ \A k \in 1..(i - 1) :
                            ~(Sections[k].link # 0 /\ InSpan(Sections[k], y))].link}
    ELSE active

\* updateActiveLink: the active links afterwards.
updateActiveLink(active, y) == updateActiveLinkFrom(active, y, 1)

\* What the parallax scroll listener reads and writes, as one value.
ParallaxState == [ticking |-> ticking, requests |-> frameRequests]

ParallaxListenerUnguarded(p) == [ticking |-> TRUE, requests |-> p.requests + 1]

\* The parallax scroll listener: request a frame unless one is awaited.
ParallaxListener(p) ==
    IF ~p.ticking THEN [ticking |-> TRUE, requests |-> p.requests + 1] ELSE p

\* scrolled * 0.3, in tenths
ParallaxTenths == 3

\* no inline transform on the element
NoTransform == -1

\* A scroll event: the position changes and every scroll listener runs: the
\* debounced wrappers, each called with the event, and the parallax listener.
ScrollEvent ==
    \E y \in ScrollOffsets :
        /\ scrollY' = y
        /\ debounceTimers' = [w \in WrapperNames |->
                                 executedFunction(debounceTimers[w], Wait(w), y)]
        /\ sinceCall' = 0
        /\ burst' = IF sinceCall >= 0 /\ sinceCall < LinkWait THEN 2 ELSE 1
        /\ invoked' = [w \in WrapperNames |-> <<>>]
        /\ scrollEvent' = "scroll"
        /\ ticking' = ParallaxListener(ParallaxState).ticking
        /\ frameRequests' = ParallaxListener(ParallaxState).requests
        /\ UNCHANGED <<headerScrolled, activeLinks, backToTopVisible, particlesTransform,
                       OutsideScroll>>

\* The timer of a wrapper that the event loop runs next: its oldest due one.
DueOf(w) ==
    IF \E i \in 1..Len(debounceTimers[w]) : debounceTimers[w][i].remaining = 0
    THEN CHOOSE i \in 1..Len(debounceTimers[w]) :
             /\ debounceTimers[w][i].remaining = 0
             /\ \A k \in 1..(i - 1) : debounceTimers[w][k].remaining # 0
    ELSE 0

\* A wrapper's timer fires: later() clears `timeout` and calls func(...args).
DebounceFires ==
    \E w \in WrapperNames :
        /\ DueOf(w) # 0
        /\ debounceTimers' = [debounceTimers EXCEPT
                                 ![w] = ClearTimeout(RemoveAt(@, DueOf(w)))]
        /\ invoked' = [invoked EXCEPT ![w] = Append(@, debounceTimers[w][DueOf(w)].args)]
        /\ headerScrolled' = IF w = "handleHeaderScroll"
                                THEN handleHeaderScroll(scrollY) ELSE headerScrolled
        /\ activeLinks' = IF w = "updateActiveLink"
                             THEN updateActiveLink(activeLinks, scrollY) ELSE activeLinks
        /\ backToTopVisible' = IF w = "toggleBackToTop"
                                  THEN toggleBackToTop(scrollY) ELSE backToTopVisible
        /\ scrollEvent' = w
        /\ UNCHANGED <<scrollY, sinceCall, burst, ticking, frameRequests,
                       particlesTransform, OutsideScroll>>

\* Time passes, never beyond the deadline of a pending timer.
ScrollTick ==
    LET lefts == UNION { { debounceTimers[w][i].remaining :
                              i \in 1..Len(debounceTimers[w]) } : w \in WrapperNames }
        d == IF \E l \in lefts : l < ScrollStep
                THEN CHOOSE l \in lefts : \A m \in lefts : l <= m
                ELSE ScrollStep
    IN  /\ 0 \notin lefts
        /\ sinceCall >= 0
        /\ sinceCall <= LinkWait
        /\ debounceTimers' = [w \in WrapperNames |->
                                 [i \in 1..Len(debounceTimers[w]) |->
                                     [debounceTimers[w][i] EXCEPT !.remaining = @ - d]]]
        /\ sinceCall' = sinceCall + d
        /\ scrollEvent' = "tick"
        /\ UNCHANGED <<scrollY, headerScrolled, activeLinks, backToTopVisible, burst,
                       invoked, ticking, frameRequests, particlesTransform, OutsideScroll>>

\* An animation frame runs one requested parallax callback.
ParallaxFrame ==
    /\ frameRequests > 0
    /\ particlesTransform' = scrollY * ParallaxTenths
    /\ ticking' = FALSE
    /\ frameRequests' = frameRequests - 1
    /\ scrollEvent' = "frame"
    /\ UNCHANGED <<scrollY, headerScrolled, activeLinks, backToTopVisible, debounceTimers,
                   sinceCall, burst, invoked, OutsideScroll>>

\* The page after init(): handleHeaderScroll() has run once, the other classes
\* are the markup's.
ScrollStart ==
    /\ scrollY \in ScrollOffsets
    /\ headerScrolled = handleHeaderScroll(scrollY)
    /\ activeLinks \in SUBSET NavLinkIds
    /\ backToTopVisible = FALSE
    /\ debounceTimers = [w \in WrapperNames |-> <<>>]
    /\ sinceCall = -1
    /\ burst = 0
    /\ invoked = [w \in WrapperNames |-> <<>>]
    /\ scrollEvent = "none"
    /\ ticking = FALSE
    /\ frameRequests = 0
    /\ particlesTransform = NoTransform

ScrollIdle == ScrollStart /\ scrollY = 0 /\ activeLinks = {1}

ScrollNext == ScrollEvent \/ DebounceFires \/ ScrollTick \/ ParallaxFrame

----------------------------------------------------------------------------
\* Reveal on scroll

\* number of '.service-card, .feature, .contact__item' elements of the page
NumReveal == 4

RevealIds == 1..NumReveal

unobserveNothing(observed, target) == observed

\* observer.unobserve(entry.target)
unobserve(observed, target) == observed \ {target}

RECURSIVE UnobserveAll(_, _)
\* The unobserve calls of one callback, one per intersecting entry.
UnobserveAll(observed, targets) ==
    IF targets = {} THEN observed
    ELSE LET t == CHOOSE x \in targets : TRUE
         IN  UnobserveAll(unobserve(observed, t), targets \ {t})

\* The observer's callback, called with one entry for each of some observed
\* targets: every intersecting one is marked 'visible' and unobserved.
RevealCallback ==
    \E targets \in (SUBSET revealObserved) \ {{}} :
        \E entries \in [targets -> BOOLEAN] :
            LET hits == { e \in targets : entries[e] }
            IN  /\ revealVisible' = revealVisible \cup hits
                /\ revealObserved' = UnobserveAll(revealObserved, hits)
                /\ revealActs' = [e \in RevealIds |->
                                     IF e \in hits THEN Min(revealActs[e] + 1, 2)
                                                   ELSE revealActs[e]]
                /\ lastEntries' = entries
                /\ UNCHANGED <<revealClass, OutsideReveal>>

\* The page after initScrollReveal: every element has class 'reveal' and is observed.
RevealStart ==
    /\ revealClass = RevealIds
    /\ revealVisible = {}
    /\ revealObserved = RevealIds
    /\ revealActs = [e \in RevealIds |-> 0]
    /\ lastEntries = <<>>

RevealNext == RevealCallback

----------------------------------------------------------------------------
\* Statistics counter

\* number of .stat__number elements of the page
NumStats == 2

StatIds == 1..NumStats

\* parseInt(data-count, 10) of each element
StatTarget(e) == <<150, 7, 1000>>[((e - 1) % 3) + 1]

countAnimationDuration == 2000

\* Animation frames come a whole number of FrameStep ms apart.
FrameStep == 250

FrameIntervals == {FrameStep, 2 * FrameStep, 3 * FrameStep}

\* the element's text in the markup, before any frame has written it
MarkupText == -1

\* animateCount: startTime = performance.now(), then the first frame request.
animateCount(loops, element) ==
    [loops EXCEPT ![element] = Append(@, [elapsed |-> 0])]

Cube(x) == x * x * x

\* Math.floor(start + (target - start) * easeProgress) with start = 0,
\* progress = Math.min(elapsed / duration, 1) and
\* easeProgress = 1 - Math.pow(1 - progress, 3), in whole FrameSteps.
CurrentCount(target, elapsed) ==
    LET d == countAnimationDuration \div FrameStep
        t == Min(elapsed, countAnimationDuration) \div FrameStep
    IN  (target * (Cube(d) - Cube(d - t))) \div Cube(d)

RescheduledAtFull(elapsed) == elapsed <= countAnimationDuration

\* if (progress < 1) requestAnimationFrame(updateCount)
Rescheduled(elapsed) == elapsed < countAnimationDuration

\* The textContent updateCount leaves: current, then the target on the last frame.
updateCountText(target, elapsed) ==
    IF Rescheduled(elapsed) THEN CurrentCount(target, elapsed) ELSE target

StatsUnobserveNone(observed, hits) == observed

\* observer.unobserve(entry.target), for every intersecting entry
StatsUnobserve(observed, hits) == UnobserveAll(observed, hits)

\* The observer's callback, called with one entry for each of some observed
\* targets: every intersecting one starts its animation and is unobserved.
StatsCallback ==
    \E targets \in (SUBSET statObserved) \ {{}} :
        \E entries \in [targets -> BOOLEAN] :
            LET hits == { e \in targets : entries[e] }
            IN  /\ statLoops' = [e \in StatIds |->
                                    IF e \in hits THEN animateCount(statLoops, e)[e]
                                                  ELSE statLoops[e]]
                /\ statStarts' = [e \in StatIds |->
                                     IF e \in hits THEN Min(statStarts[e] + 1, 2)
                                                   ELSE statStarts[e]]
                /\ statObserved' = StatsUnobserve(statObserved, hits)
                /\ lastFrame' = 0
                /\ UNCHANGED <<statText, statDone, OutsideStats>>

\* One animation frame, dt ms after the one before: every pending updateCount
\* request runs with the frame's time and, below full progress, requests the next.
StatsFrame ==
    \E dt \in FrameIntervals :
        LET now(e) == [i \in 1..Len(statLoops[e]) |->
                          [elapsed |-> statLoops[e][i].elapsed + dt]]
        IN  /\ \E e \in StatIds : statLoops[e] # <<>>
            /\ statLoops' = [e \in StatIds |->
                                SelectSeq(now(e), LAMBDA l : Rescheduled(l.elapsed))]
            /\ statText' = [e \in StatIds |->
                               IF statLoops[e] = <<>> THEN statText[e]
                               ELSE updateCountText(StatTarget(e),
                                                    now(e)[Len(now(e))].elapsed)]
            /\ statDone' = statDone \cup
                              { e \in StatIds : \E i \in 1..Len(now(e)) :
                                                   ~Rescheduled(now(e)[i].elapsed) }
            /\ lastFrame' = dt
            /\ UNCHANGED <<statObserved, statStarts, OutsideStats>>

\* The page after initStatsCounter: every element is observed, none animated.
StatsStart ==
    /\ statObserved = StatIds
    /\ statLoops = [e \in StatIds |-> <<>>]
    /\ statText = [e \in StatIds |-> MarkupText]
    /\ statStarts = [e \in StatIds |-> 0]
    /\ statDone = {}
    /\ lastFrame = 0

StatsNext == StatsCallback \/ StatsFrame

----------------------------------------------------------------------------
\* Start-up and the handlers on a page that lacks one element

\* The elements the script looks up, by getElementById or querySelector(All).
PageElements == {"header", "navToggle", "navMenu", "backToTop", "contactForm",
                 "submitButton", "successMessage", "statNumbers", "revealElements",
                 "heroParticles", "currentYear"}

\* The statements of init(), in order.
InitSteps == <<"checkReducedMotion", "setCurrentYear", "initMobileNav",
               "initSmoothScroll", "initActiveNavLink", "initBackToTop",
               "initScrollReveal", "initStatsCounter", "initContactForm",
               "initKeyboardNav", "initParallax", "headerScrollListener",
               "handleHeaderScroll">>

\* The statement returns at its existence guard, before it sets anything up.
GuardReturns(step, missing) ==
    \/ step = "setCurrentYear" /\ missing = "currentYear"
    \/ step = "initMobileNav" /\ missing \in {"navToggle", "navMenu"}
    \/ step = "initBackToTop" /\ missing = "backToTop"
    \/ step = "initStatsCounter" /\ missing = "statNumbers"
    \/ step = "initContactForm" /\ missing = "contactForm"
    \/ step = "initParallax" /\ missing = "heroParticles"

\* elements.header is dereferenced without a guard: a TypeError when it is null.
HeaderDereferenceThrows(missing) == missing = "header"

\* The statement throws: only the direct call of handleHeaderScroll can.
StepThrows(step, missing) ==
    step = "handleHeaderScroll" /\ HeaderDereferenceThrows(missing)

\* One statement of init(); an error it throws leaves init().
InitStatement ==
    /\ initPc <= Len(InitSteps)
    /\ LET step == InitSteps[initPc]
       IN  /\ uncaught' = (uncaught \/ StepThrows(step, absent))
           /\ initialized' = IF GuardReturns(step, absent) \/ StepThrows(step, absent)
                                THEN initialized
                                ELSE initialized \cup {step}
           /\ initPc' = IF StepThrows(step, absent) THEN Len(InitSteps) + 1
                                                    ELSE initPc + 1
    /\ UNCHANGED <<absent, worked, caught, pageEvent, OutsideInit>>

InitLeft == initPc = Len(InitSteps) + 1

\* A scroll event and the callbacks it leads to: the debounced
\* handleHeaderScroll, updateActiveLink and toggleBackToTop, the parallax frame.
PageScroll ==
    /\ InitLeft
    /\ uncaught' = (uncaught \/ HeaderDereferenceThrows(absent))
    /\ worked' = worked \cup
                    ((initialized \cap {"initBackToTop", "initParallax"}) \cup
                     (IF HeaderDereferenceThrows(absent) THEN {}
                      ELSE initialized \cap {"headerScrollListener", "initActiveNavLink"}))
    /\ pageEvent' = "scroll"
    /\ UNCHANGED <<absent, initPc, initialized, caught, OutsideInit>>

\* A click on a navigation link a[href^="#"]: closeMobileMenu where
\* initMobileNav has registered it, then smoothScrollTo.
PageLinkClick ==
    /\ InitLeft
    /\ uncaught' = (uncaught \/ HeaderDereferenceThrows(absent))
    /\ worked' = worked \cup
                    ((initialized \cap {"initMobileNav"}) \cup
                     (IF HeaderDereferenceThrows(absent) THEN {}
                      ELSE initialized \cap {"initSmoothScroll"}))
    /\ pageEvent' = "linkClick"
    /\ UNCHANGED <<absent, initPc, initialized, caught, OutsideInit>>

\* A keydown on a navigation link: the link's listener and the document's.
PageKeydown ==
    /\ InitLeft
    /\ worked' = worked \cup (initialized \cap {"initMobileNav", "initKeyboardNav"})
    /\ pageEvent' = "keydown"
    /\ UNCHANGED <<absent, initPc, initialized, uncaught, caught, OutsideInit>>

\* An intersection notification of the two observers.
PageIntersection ==
    /\ InitLeft
    /\ worked' = worked \cup (initialized \cap {"initScrollReveal", "initStatsCounter"})
    /\ pageEvent' = "intersection"
    /\ UNCHANGED <<absent, initPc, initialized, uncaught, caught, OutsideInit>>

\* A submit event with valid values, up to the end of its submission:
\* submitBtn is dereferenced outside the try block, successMessage inside it.
PageSubmit ==
    /\ InitLeft
    /\ "initContactForm" \in initialized
    /\ uncaught' = (uncaught \/ absent = "submitButton")
    /\ caught' = (caught \/ absent = "successMessage")
    /\ worked' = IF absent \in {"submitButton", "successMessage"}
                     THEN worked
                     ELSE worked \cup {"initContactForm"}
    /\ pageEvent' = "submit"
    /\ UNCHANGED <<absent, initPc, initialized, OutsideInit>>

\* The script starts on a page that lacks at most one of the elements.
PageStart ==
    /\ absent \in PageElements \cup {"none"}
    /\ initPc = 1
    /\ initialized = {}
    /\ worked = {}
    /\ uncaught = FALSE
    /\ caught = FALSE
    /\ pageEvent = "none"

PageIdle == PageStart /\ absent = "none"

PageNext ==
    \/ InitStatement
    \/ PageScroll
    \/ PageLinkClick
    \/ PageKeydown
    \/ PageIntersection
    \/ PageSubmit

----------------------------------------------------------------------------
\* validateField as a function of one field's value

\* longest name typed character by character
MaxNameLen == 3

\* "A", "z", e acute, space, tab, the multiplication sign, "1", "-"
NameChars == {65, 122, 233, 32, 9, 215, 49, 45}

RECURSIVE StringsUpTo(_, _)
\* every string of at most n code units over the alphabet
StringsUpTo(n, alphabet) ==
    IF n = 0 THEN { <<>> }
    ELSE LET shorter == StringsUpTo(n - 1, alphabet)
         IN  shorter \cup { Append(str, c) : str \in shorter, c \in alphabet }

\* optional white space around a value
Padding == { <<>>, <<32>>, <<10>> }

\* Names: the short strings, and runs of "a" around the upper length limit.
NameProbes ==
    StringsUpTo(MaxNameLen, NameChars) \cup
    { l \o Str(n, 97) \o r : n \in {49, 50, 51}, l \in Padding, r \in Padding }

\* Messages: runs of "x" of a length around the two limits holding one "x",
\* "1", ".", space, line feed or carriage return in their middle.
MessageProbes ==
    { l \o Str(n \div 2, 120) \o <<c>> \o Str(n - 1 - (n \div 2), 120) \o r :
        n \in {1, 9, 10, 11, 1000, 1001}, c \in {120, 49, 46, 32, 10, 13},
        l \in Padding, r \in Padding }

\* validateField(field) is called and returns.
ValidateProbe ==
    /\ verdict = "none"
    /\ verdict' = IF validateField(FormUi, probe.field, probe.value).ok
                     THEN "valid" ELSE "invalid"
    /\ UNCHANGED <<probe, OutsideProbe>>

ProbeStart ==
    /\ probe \in ([field : {"name"}, value : NameProbes]
                    \cup [field : {"message"}, value : MessageProbes])
    /\ verdict = "none"

ProbeIdle == probe = [field |-> "name", value |-> <<>>] /\ verdict = "none"

ProbeNext == ValidateProbe

----------------------------------------------------------------------------
\* Specifications

MenuInit == MenuStart /\ FormIdle /\ ScrollIdle /\ RevealStart /\ StatsStart /\ PageIdle /\ ProbeIdle

SpecMenu == MenuInit /\ [][MenuNext]_vars

FormInit == FormStart /\ MenuIdle /\ ScrollIdle /\ RevealStart /\ StatsStart /\ PageIdle /\ ProbeIdle

SpecForm == FormInit /\ [][FormNext]_vars

ScrollInit == ScrollStart /\ MenuIdle /\ FormIdle /\ RevealStart /\ StatsStart /\ PageIdle /\ ProbeIdle

RevealInit == RevealStart /\ MenuIdle /\ FormIdle /\ ScrollIdle /\ StatsStart /\ PageIdle /\ ProbeIdle

SpecReveal == RevealInit /\ [][RevealNext]_vars

SpecScroll == ScrollInit /\ [][ScrollNext]_vars

StatsInit == StatsStart /\ MenuIdle /\ FormIdle /\ ScrollIdle /\ RevealStart /\ PageIdle /\ ProbeIdle

PageInit == PageStart /\ MenuIdle /\ FormIdle /\ ScrollIdle /\ RevealStart /\ StatsStart /\ ProbeIdle

SpecPage == PageInit /\ [][PageNext]_vars

ProbeInit ==
    ProbeStart /\ MenuIdle /\ FormIdle /\ ScrollIdle /\ RevealStart /\ StatsStart /\ PageIdle

SpecProbe == ProbeInit /\ [][ProbeNext]_vars

SpecStats == StatsInit /\ [][StatsNext]_vars

\* The browser keeps rendering frames while frame requests are pending.
FairSpecStats == SpecStats /\ WF_vars(StatsFrame)

\* Timers fire and time passes: the event loop runs a due timer's callback.
FairSpecForm ==
    /\ SpecForm
    /\ WF_vars(FormTick)
    /\ WF_vars(SubmissionCompletes)
    /\ WF_vars(HideSuccess)

----------------------------------------------------------------------------
\* C1: once toggleMobileMenu or closeMobileMenu has run, the menu's open class,
\* the toggle's aria-expanded="true" and the body's menu-open class agree.
MenuStateAgrees ==
    menuHandled =>
        /\ navMenuOpen <=> (ariaExpanded = "true")
        /\ navMenuOpen <=> bodyMenuOpen

\* C1 witness: the markup started with the three out of step (the menu closed
\* but the body scroll-locked cannot be told from a state alone), a trigger has
\* been handled, and all three say "open".
MenuAgreesOpenWitness ==
    menuHandled /\ navMenuOpen /\ ariaExpanded = "true" /\ bodyMenuOpen

\* C2: the menu's state after one fully dispatched event, per kind of event.
MenuTransitions ==
    [][ /\ menuEvent' = "toggle" => navMenuOpen' = ~navMenuOpen
        /\ menuEvent' \in {"menuLink", "outsideLink"} => ~navMenuOpen'
        /\ menuEvent' \in {"Escape", "outside"} =>
              /\ ~navMenuOpen'
              /\ ~navMenuOpen => UNCHANGED <<ariaExpanded, bodyMenuOpen>>
        /\ menuEvent' = "menuOther" =>
              UNCHANGED <<navMenuOpen, ariaExpanded, bodyMenuOpen>>
      ]_vars

\* C2 witness: a toggle click has opened the menu and the document's click
\* listener, run for the same click, has left it open.
ToggleClickOpenedWitness == menuEvent = "toggle" /\ navMenuOpen /\ linkFocus = 0

\* The place of a field in the document order of the form.
FieldIndex(f) == CHOOSE i \in 1..Len(FormFields) : FormFields[i].name = f

SubmitInFlight == \E i \in 1..Len(timers) : timers[i].kind = "submit"

\* C3: a submit whose validation fails leaves the submit control, the timers and
\* the success message as they were (not loading, not disabled when no earlier
\* submission is in flight), marks every invalid field with the error class and
\* focuses the first field in document order that carries it.
InvalidSubmitAborts ==
    [][ formEvent' = "submitInvalid" =>
          /\ UNCHANGED <<btnLoading, btnDisabled, timers, successVisible>>
          /\ ~SubmitInFlight => ~btnLoading' /\ ~btnDisabled'
          /\ \A f \in FieldNames : ~IsValid(f, fieldValue[f]) => fieldError'[f]
          /\ formFocus' \in FieldNames
          /\ fieldError'[formFocus']
          /\ \A g \in FieldNames :
                FieldIndex(g) < FieldIndex(formFocus') => ~fieldError'[g]
      ]_vars

\* C3 witness: "not-an-email" was submitted with a valid name; the email field
\* carries the error class and has the focus, and nothing is loading.
InvalidEmailSubmittedWitness ==
    /\ formEvent = "submitInvalid"
    /\ fieldValue["email"] = <<110, 111, 116, 45, 97, 110, 45, 101, 109, 97, 105, 108>>
    /\ ~fieldError["name"]
    /\ fieldError["email"]
    /\ formFocus = "email"
    /\ ~btnLoading /\ ~btnDisabled /\ timers = <<>>

\* C4: a submit control that is disabled or loading is eventually neither.
LoadingEventuallyCleared ==
    [](btnDisabled \/ btnLoading => <>(~btnDisabled /\ ~btnLoading))

\* C4 witness: a submission has failed in the catch branch and the control is
\* enabled again.
FailedSubmissionClearedWitness ==
    formEvent = "failed" /\ alerted /\ ~btnDisabled /\ ~btnLoading

\* C5 (as claimed): after a successful completion the success message is visible
\* for the 5000 ms that follow it and hidden once they have passed, and at the
\* completion every field value is empty.
SuccessShownFor5000ms ==
    /\ (sinceSuccess >= 0 /\ sinceSuccess < HideDelay) => successVisible
    /\ (sinceSuccess >= HideDelay /\ DueTimer = 0) => ~successVisible
    /\ formEvent = "completed" => fieldValue = [f \in FieldNames |-> <<>>]

\* C6: validateForm returns true exactly when every field is valid, and after it
\* every invalid field carries the error class and its message and every valid
\* field carries neither.
ValidateFormChecksEveryField ==
    [][ formEvent' \in {"submitInvalid", "submitValid"} =>
          /\ formEvent' = "submitValid" <=>
                \A f \in FieldNames : IsValid(f, fieldValue[f])
          /\ \A f \in FieldNames :
                IF IsValid(f, fieldValue[f])
                THEN ~fieldError'[f] /\ errorText'[f] = "" /\ ~errorVisible'[f]
                ELSE /\ fieldError'[f]
                     /\ errorText'[f] = errorMessages(f)
                     /\ errorVisible'[f]
      ]_vars

\* C6 witness: a submit found the name invalid and still marked the message, the
\* valid email between them carrying no error.
LaterFieldMarkedWitness ==
    /\ formEvent = "submitInvalid"
    /\ fieldError["name"] /\ errorVisible["name"]
    /\ ~fieldError["email"] /\ fieldValue["email"] # <<>>
    /\ fieldError["message"]
    /\ errorText["message"] = "Il messaggio deve contenere almeno 10 caratteri"

\* C7: a debounced wrapper has at most one timer pending; it invokes its function
\* only when its wait has passed since the last call, once, with the arguments of
\* that call (the scroll event, which carries the offset scrolled to); before
\* the wait has passed nothing is invoked and the timer of the last call is
\* pending, and after it the one invocation has been made.
DebounceContract ==
    [][ \A w \in WrapperNames :
          /\ Len(debounceTimers'[w]) <= 1
          /\ Len(invoked'[w]) <= 1
          /\ Len(invoked'[w]) > Len(invoked[w]) =>
                /\ sinceCall = Wait(w)
                /\ invoked'[w] = <<scrollY>>
          /\ sinceCall' > Wait(w) => Len(invoked'[w]) = 1
          /\ (sinceCall' >= 0 /\ sinceCall' < Wait(w)) =>
                /\ invoked'[w] = <<>>
                /\ Len(debounceTimers'[w]) = 1
                /\ debounceTimers'[w][1].remaining = Wait(w) - sinceCall'
                /\ debounceTimers'[w][1].args = scrollY'
      ]_vars

\* C7 witness: a burst of at least two calls has ended in one invocation of
\* updateActiveLink, 50 ms after the last call and with its arguments.
BurstInvokedOnceWitness ==
    /\ burst = 2
    /\ scrollEvent = "updateActiveLink"
    /\ sinceCall = 50
    /\ invoked["updateActiveLink"] = <<scrollY>>
    /\ debounceTimers["updateActiveLink"] = <<>>

\* C8: with no debounced handleHeaderScroll pending, the header carries
\* 'scrolled' exactly when the scroll offset is greater than 100.
HeaderFollowsOffset ==
    debounceTimers["handleHeaderScroll"] = <<>> => (headerScrolled <=> scrollY > 100)

\* C8 witness: the handler has run at offset 100 and left a header that carried
\* 'scrolled' without it.
HeaderAtThresholdWitness ==
    /\ scrollEvent = "handleHeaderScroll"
    /\ scrollY = 100
    /\ ~headerScrolled
    /\ debounceTimers["handleHeaderScroll"] = <<>>

\* The sections with a navigation link whose span, as updateActiveLink computes
\* it, contains y.
Matching(y) ==
    { i \in 1..Len(Sections) :
        /\ Sections[i].link # 0
        /\ y > Sections[i].top - HeaderHeight - 100
        /\ y <= Sections[i].top - HeaderHeight - 100 + Sections[i].height }

\* C9 (as claimed): after updateActiveLink, the link of a section whose span
\* contains the offset is the one active link, and no link is active when no
\* section's span contains it.
ActiveLinkOneOrNone ==
    [][ scrollEvent' = "updateActiveLink" =>
          IF Matching(scrollY) # {}
          THEN \E i \in Matching(scrollY) : activeLinks' = {Sections[i].link}
          ELSE activeLinks' = {}
      ]_vars

\* C9 (amended): after updateActiveLink, the link of the last section in document
\* order whose span contains the offset is the one active link; when no
\* section's span contains it the active links are left as they were.
ActiveLinkLastMatchOrKept ==
    [][ scrollEvent' = "updateActiveLink" =>
          IF Matching(scrollY) # {}
          THEN \E i \in Matching(scrollY) :
                  /\ \A k \in Matching(scrollY) : k <= i
                  /\ activeLinks' = {Sections[i].link}
          ELSE activeLinks' = activeLinks
      ]_vars

\* C9 witness: updateActiveLink has run at an offset inside no linked section's
\* span and a link is still active.
StaleActiveLinkWitness ==
    /\ scrollEvent = "updateActiveLink"
    /\ Matching(scrollY) = {}
    /\ activeLinks = {3}

\* C10: an entry that reports a reveal element intersecting marks it 'visible'
\* and ends its observation; the callback reveals an element at most once, and
\* exactly once for a visible one; an entry that reports it not intersecting
\* leaves it observed and unmarked; a visible element stays visible.
RevealOnceAndForAll ==
    [][ /\ \A e \in DOMAIN lastEntries' :
              IF lastEntries'[e]
              THEN e \in revealVisible' /\ e \notin revealObserved'
              ELSE e \notin revealVisible' /\ e \in revealObserved'
        /\ \A e \in RevealIds :
              /\ revealActs'[e] = (IF e \in revealVisible' THEN 1 ELSE 0)
              /\ e \in revealVisible => e \in revealVisible'
              /\ e \in revealObserved' <=> e \notin revealVisible'
      ]_vars

\* C10 witness: element 1 was reported intersecting and is visible and no longer
\* observed, revealed once; element 2 was reported not intersecting in the same
\* callback and is still observed and unmarked.
RevealedOnceWitness ==
    /\ DOMAIN lastEntries = {1, 2}
    /\ lastEntries[1] /\ ~lastEntries[2]
    /\ 1 \in revealVisible /\ 1 \notin revealObserved /\ revealActs[1] = 1
    /\ 2 \notin revealVisible /\ 2 \in revealObserved
    /\ 3 \in revealVisible

\* C14: handling a forced-close trigger (Escape, a navigation-link click, an
\* outside click) a second time in a row changes nothing of the menu state
\* (open class, aria-expanded, scroll lock) the first handling left.
ForcedCloseTriggers == {"Escape", "menuLink", "outsideLink", "outside"}

ForcedCloseIdempotent ==
    [][(menuRepeat' /\ menuEvent' \in ForcedCloseTriggers)
          => UNCHANGED <<navMenuOpen, ariaExpanded, bodyMenuOpen>>]_vars

EscapeTwiceWhileClosedWitness ==
    menuRepeat /\ menuEvent = "Escape" /\ ~navMenuOpen /\ menuHandled
\* C11: animateCount is started at most once for every stat element, at most
\* one updateCount loop runs for it, and an element that was started is no
\* longer observed, whatever intersection notifications follow.
StatAnimatedAtMostOnce ==
    \A e \in StatIds :
        /\ statStarts[e] <= 1
        /\ Len(statLoops[e]) <= 1
        /\ statStarts[e] = 1 => e \notin statObserved

StatFinishedThenOtherStartedWitness ==
    \E e, f \in StatIds :
        /\ e \in statDone /\ statStarts[e] = 1 /\ statLoops[e] = <<>>
        /\ statStarts[f] = 1 /\ statLoops[f] # <<>>

\* C12: a frame that finds progress below 1 requests exactly one further frame;
\* the first frame with progress 1 requests none and leaves the target as the
\* text; after it the animation never writes the text again; and with frames
\* being rendered every started animation reaches that final frame.
CountAnimationCompletes ==
    /\ [][lastFrame' > 0 =>
             \A e \in StatIds :
                 statLoops[e] # <<>> =>
                     LET elapsed == statLoops[e][1].elapsed + lastFrame'
                     IN  IF elapsed < countAnimationDuration
                            THEN /\ statLoops'[e] = <<[elapsed |-> elapsed]>>
                                 /\ e \notin statDone'
                            ELSE /\ statLoops'[e] = <<>>
                                 /\ statText'[e] = StatTarget(e)
                                 /\ e \in statDone']_vars
    /\ [][\A e \in statDone : statText'[e] = statText[e] /\ statLoops'[e] = <<>>]_vars
    /\ \A e \in StatIds :
           (statLoops[e] # <<>>) ~> (e \in statDone /\ statText[e] = StatTarget(e))

CountReachedTargetWitness ==
    \E e \in StatIds :
        /\ e \in statDone /\ statText[e] = StatTarget(e) /\ statLoops[e] = <<>>
        /\ lastFrame > 0
\* C13: whichever single element the page lacks, init() and the events that
\* follow it never raise an error that is left uncaught.
NoErrorWhateverIsAbsent == ~uncaught
\* C15: validateField returns true for a message exactly when its trimmed
\* value has 10 to 1000 characters, whatever the characters are.
MessageValidIffLength ==
    (probe.field = "message" /\ verdict # "none") =>
        (verdict = "valid" <=> Len(Trim(probe.value)) \in 10..1000)

\* accented Latin letters: U+00C0..U+00FF without the signs U+00D7 and U+00F7
Letters == (UpperCase \cup LowerCase \cup LatinRange) \ {215, 247}

\* C16: validateField returns true for a name exactly when the field's current
\* value is made of 2 to 50 characters, each a letter or a space.
NameValidIffLettersOrSpaces ==
    (probe.field = "name" /\ verdict # "none") =>
        (verdict = "valid" <=>
            /\ Len(probe.value) \in 2..50
            /\ \A i \in 1..Len(probe.value) : probe.value[i] \in Letters \cup {32})
\* C17: with no debounced toggleBackToTop pending, the back-to-top button
\* carries 'visible' exactly when the scroll offset is greater than 300,
\* the state right after init() included.
BackToTopFollowsOffset ==
    debounceTimers["toggleBackToTop"] = <<>> =>
        (backToTopVisible <=> scrollY > scrollThreshold * 3)
\* C18: while at least one simulated submission is in flight the submit
\* control is disabled and carries 'loading'.
LoadingWhileInFlight == SubmitInFlight => (btnDisabled /\ btnLoading)
\* The error display of one field: its error class, and its message's text and
\* 'visible' class.
ErrorStateKept(f) ==
    /\ fieldError'[f] = fieldError[f]
    /\ errorText'[f] = errorText[f]
    /\ errorVisible'[f] = errorVisible[f]

\* C19: an input on a field without the error class leaves that field's error
\* display as it was; a field gets the error class only in a step that is its
\* blur or a submit-time validation; an input on a field with the error class
\* leaves it in error exactly when the new value is invalid, with the message
\* cleared otherwise; and an input or blur of one field leaves the error display
\* of every other field as it was.
InputRevalidatesOnlyErrorFields ==
    [][\A f \in FieldNames :
          LET submitted == formEvent' \in {"submitInvalid", "submitValid"}
              inputOn == /\ formEvent' = "other"
                         /\ fieldValue'[f] # fieldValue[f]
              blurOf == formFocus = f /\ formFocus' # f
          IN  /\ (inputOn /\ ~fieldError[f]) => ErrorStateKept(f)
              /\ (~fieldError[f] /\ fieldError'[f]) => (blurOf \/ submitted)
              /\ (inputOn /\ fieldError[f]) =>
                     /\ fieldError'[f] <=> ~IsValid(f, fieldValue'[f])
                     /\ errorVisible'[f] <=> fieldError'[f]
                     /\ ~fieldError'[f] => errorText'[f] = ""
              /\ ((inputOn \/ blurOf) /\ ~submitted) =>
                     \A g \in FieldNames \ {f} : ErrorStateKept(g)]_vars

\* C19 witness: an invalid address has been typed into the focused email field,
\* which carried no error class, and the field shows no error.
InvalidTypedWithoutErrorWitness ==
    /\ formFocus = "email"
    /\ fieldValue["email"] # <<>> /\ ~IsValid("email", fieldValue["email"])
    /\ ~fieldError["email"] /\ ~errorVisible["email"] /\ errorText["email"] = ""
    /\ fieldError["name"]
\* C20: at most one parallax frame callback is pending, `ticking` is true
\* exactly while one is; a scroll event leaves one pending; and with none
\* pending after a scroll event the translation is 0.3 times the scroll offset.
ParallaxFollowsOffset ==
    /\ frameRequests <= 1
    /\ ticking <=> frameRequests = 1
    /\ scrollEvent = "scroll" => frameRequests = 1
    /\ (sinceCall >= 0 /\ frameRequests = 0) =>
           particlesTransform = 3 * scrollY      \* tenths of a px

\* C20 witness: two scroll events awaited one frame, which has applied the
\* offset of the second.
ParallaxAfterBurstWitness ==
    /\ scrollEvent = "frame" /\ burst = 2
    /\ scrollY = 101 /\ particlesTransform = 303
    /\ ~ticking /\ frameRequests = 0
====
